---- MODULE Spec2Model ----
(***************************************************************************)
(* Model of ac_dc/oscar_sample_filter.py: the text transformer             *)
(* (ModifyingSentences), the six filtering checks (Filtering), the bound   *)
(* per-language filter (FuncOscarFiltering) and the map/filter pipeline    *)
(* run by num_proc worker processes (OscarFiltering).                      *)
(*                                                                         *)
(* A Python str is a sequence of one-character strings.  An Optional       *)
(* value is <<>> (None) or <<x>>.  A float ratio or cutoff is an exact     *)
(* fraction <<num, den>> with den > 0, compared by cross-multiplication.   *)
(***************************************************************************)
EXTENDS Integers, Sequences, FiniteSets, TLC

\* ------------------------------------------------------------ bounds
\* Longest document text, in characters.
MaxLen == 3
\* How many times the transformer is applied to one example.
MaxCalls == 2

\* ------------------------------------------------------- Python str
Alphabet == {"a", "A", " ", "\n", "!"}
Whitespace == {" ", "\n"}

RECURSIVE StringsUpTo(_)
StringsUpTo(n) ==
  IF n = 0 THEN {<<>>}
  ELSE LET S == StringsUpTo(n - 1)
       IN  S \cup {Append(s, c) : s \in {t \in S : Len(t) = n - 1}, c \in Alphabet}

Texts == StringsUpTo(MaxLen)

\* str.lower(), one character
lower_char(c) == IF c = "A" THEN "a" ELSE c

\* str.lower()
lower(s) == [i \in 1..Len(s) |-> lower_char(s[i])]

\* str.strip(chars): drop the leading and trailing characters that are in chars
RECURSIVE lstrip(_, _)
lstrip(s, chars) ==
  IF s # <<>> /\ Head(s) \in chars THEN lstrip(Tail(s), chars) ELSE s

RECURSIVE rstrip(_, _)
rstrip(s, chars) ==
  IF s # <<>> /\ s[Len(s)] \in chars
  THEN rstrip(SubSeq(s, 1, Len(s) - 1), chars) ELSE s

strip(s, chars) == rstrip(lstrip(s, chars), chars)

\* str.split(sep) for a one-character sep: every sep ends a word, empty words
\* are kept, and "".split(sep) is [""]
RECURSIVE split_from(_, _, _, _)
split_from(s, sep, i, word) ==
  IF i > Len(s) THEN <<word>>
  ELSE IF s[i] = sep THEN <<word>> \o split_from(s, sep, i + 1, <<>>)
  ELSE split_from(s, sep, i + 1, Append(word, s[i]))

split(s, sep) == split_from(s, sep, 1, <<>>)

\* str.split() without arguments: runs of whitespace separate, no empty words
split_whitespace(s) ==
  LET RECURSIVE go(_, _)
      go(i, word) ==
        IF i > Len(s) THEN (IF word = <<>> THEN <<>> ELSE <<word>>)
        ELSE IF s[i] \in Whitespace
             THEN (IF word = <<>> THEN <<>> ELSE <<word>>) \o go(i + 1, <<>>)
             ELSE go(i + 1, Append(word, s[i]))
  IN  go(1, <<>>)

\* sep.join(words)
RECURSIVE join(_, _)
join(words, sep) ==
  IF words = <<>> THEN <<>>
  ELSE IF Len(words) = 1 THEN words[1]
  ELSE words[1] \o sep \o join(Tail(words), sep)

\* sub in word (substring test; "" is in every string)
contains(word, sub) ==
  \E i \in 0..(Len(word) - Len(sub)) : SubSeq(word, i + 1, i + Len(sub)) = sub

\* ------------------------------------------------ ModifyingSentences
lower_strip_sentence(sentence) == strip(lower(sentence), Whitespace)

get_words_from_sentence(sentence, strip_characters) ==
  LET sent == lower_strip_sentence(sentence)
      words == split(sent, " ")
  IN  [i \in 1..Len(words) |-> strip(words[i], strip_characters)]

remove_words_with_incorrect_substrings(sentence, incorrect_word_substrings) ==
  LET words == split(sentence, " ")
      ok(word) == \A i_substr \in incorrect_word_substrings : ~contains(word, i_substr)
  IN  join(SelectSeq(words, ok), <<" ">>)

\* remove_long_words that joins the kept words without the space
remove_long_words_unspaced(sentence, length_word_cutoff) ==
  LET words == split(sentence, " ")
      short(word) == Len(word) < length_word_cutoff
  IN  join(SelectSeq(words, short), <<>>)

remove_long_words(sentence, length_word_cutoff) ==
  LET words == split(sentence, " ")
      short(word) == Len(word) < length_word_cutoff
  IN  join(SelectSeq(words, short), <<" ">>)

modifying_sentences(sentence, cond_remove_words_with_incorrect_substrings, incorrect_word_substrings, cond_remove_long_words, length_word_cutoff) ==
  LET s1 == IF cond_remove_words_with_incorrect_substrings
            THEN remove_words_with_incorrect_substrings(sentence, incorrect_word_substrings)
            ELSE sentence
  IN  IF cond_remove_long_words THEN remove_long_words(s1, length_word_cutoff) ELSE s1

\* ------------------------------------------------- floats as fractions
\* a / b for ints a, b with b # 0, kept exact
Frac(a, b) == <<a, b>>

\* x < y for fractions with positive denominators
Less(x, y) == x[1] * y[2] < y[1] * x[2]

\* A Python bool returned by a check, or the name of the exception it raised
Bool(b) == IF b THEN "True" ELSE "False"

\* Python truthiness of an Optional set: None and the empty set are falsy
TruthySet(opt) == opt # <<>> /\ opt[1] # {}

\* Python truthiness of an Optional model object: only None is falsy
TruthyObject(opt) == opt # <<>>

\* Python truthiness of a str
TruthyStr(s) == s # ""

\* ---------------------------------------------------------- Filtering
\* check_empty with `or` for `and`
check_empty_either(sentence, strip_characters) ==
  LET sent == lower_strip_sentence(sentence)
      words == get_words_from_sentence(sentence, strip_characters)
  IN  Bool(Len(sent) > 0 \/ Len(words) > 0)

check_empty(sentence, strip_characters) ==
  LET sent == lower_strip_sentence(sentence)
      words == get_words_from_sentence(sentence, strip_characters)
  IN  Bool(Len(sent) > 0 /\ Len(words) > 0)

\* numerator and denominator of special_characters_ratio
special_characters_ratio(sentence, special_characters) ==
  LET sent == lower_strip_sentence(sentence)
      special(char) == char \in special_characters
  IN  Frac(Len(SelectSeq(sent, special)), Len(sent))

\* check_special_characters with <= for <
check_special_characters_inclusive(sentence, special_characters, special_characters_cutoff) ==
  LET ratio == special_characters_ratio(sentence, special_characters)
  IN  IF ratio[2] = 0 THEN "ZeroDivisionError"
      ELSE Bool(~Less(special_characters_cutoff, ratio))

check_special_characters(sentence, special_characters, special_characters_cutoff) ==
  LET ratio == special_characters_ratio(sentence, special_characters)
  IN  IF ratio[2] = 0 THEN "ZeroDivisionError"
      ELSE Bool(Less(ratio, special_characters_cutoff))

\* numerator and denominator of stopwords_ratio and of badwords_ratio
words_ratio(sentence, strip_characters, lexicon) ==
  LET words == get_words_from_sentence(sentence, strip_characters)
      listed(word) == word \in lexicon
  IN  Frac(Len(SelectSeq(words, listed)), Len(words))

check_stopwords(sentence, strip_characters, stopwords, stopwords_min_cutoff, stopwords_max_cutoff) ==
  IF TruthySet(stopwords)
  THEN LET ratio == words_ratio(sentence, strip_characters, stopwords[1])
       IN  IF ratio[2] = 0 THEN "ZeroDivisionError"
           ELSE Bool(Less(stopwords_min_cutoff, ratio) /\ Less(ratio, stopwords_max_cutoff))
  ELSE "True"

check_badwords(sentence, strip_characters, badwords, badwords_cutoff) ==
  IF TruthySet(badwords)
  THEN LET ratio == words_ratio(sentence, strip_characters, badwords[1])
       IN  IF ratio[2] = 0 THEN "ZeroDivisionError"
           ELSE Bool(Less(ratio, badwords_cutoff))
  ELSE "True"

\* str.replace("\n", " ")
replace_newlines(s) == [i \in 1..Len(s) |-> IF s[i] = "\n" THEN " " ELSE s[i]]

\* model_lang_id.predict(sent): the classifier is an opaque scorer; a model is
\* given by the <<label, confidence>> it answers for a text that holds the
\* letter a and for any other text
predict(model, sent) ==
  IF \E i \in 1..Len(sent) : sent[i] = "a" THEN model.with_a ELSE model.other

\* langs_id.loc[langs_id[column] == value, wanted]: the matching rows' values
loc(langs_id, column, value, wanted) ==
  LET match(row) == row[column] = value
      rows == SelectSeq(langs_id, match)
  IN  [i \in 1..Len(rows) |-> rows[i][wanted]]

\* check_lang_id without the `if model_lang_id` guard: None has no predict
check_lang_id_unguarded(sentence, strip_characters, lang_oscar_id, model_lang_id, lang_id_cutoff, langs_id) ==
  IF TruthyObject(model_lang_id)
  THEN LET words == get_words_from_sentence(sentence, strip_characters)
           sent == replace_newlines(join(words, <<" ">>))
           pred == predict(model_lang_id[1], sent)
           found == loc(langs_id, "fasttext_id", pred[1], "oscar_id")
       IN  IF found = <<>> THEN "IndexError"
           ELSE Bool(found[1] = lang_oscar_id /\ Less(lang_id_cutoff, pred[2]))
  ELSE "AttributeError"

check_lang_id(sentence, strip_characters, lang_oscar_id, model_lang_id, lang_id_cutoff, langs_id) ==
  IF TruthyObject(model_lang_id)
  THEN LET words == get_words_from_sentence(sentence, strip_characters)
           sent == replace_newlines(join(words, <<" ">>))
           pred == predict(model_lang_id[1], sent)
           found == loc(langs_id, "fasttext_id", pred[1], "oscar_id")
       IN  IF found = <<>> THEN "IndexError"
           ELSE Bool(found[1] = lang_oscar_id /\ Less(lang_id_cutoff, pred[2]))
  ELSE "True"

\* kenlm_model.score(line): the language model is an opaque scorer; a model is
\* given by the log10 probability it answers per token and for the end of the
\* line (both negated: a model answers -(per_token * tokens + eos))
score(kenlm_model, line) ==
  -(kenlm_model.per_token * Len(split_whitespace(line)) + kenlm_model.eos)

\* The exponent of get_perplexity_score, -doc_log_score / doc_length, as a
\* fraction: the perplexity is 10.0 ** that
RECURSIVE perplexity_sums(_, _)
perplexity_sums(lines, kenlm_model) ==
  IF lines = <<>> THEN <<0, 0>>
  ELSE LET rest == perplexity_sums(Tail(lines), kenlm_model)
       IN  <<score(kenlm_model, Head(lines)) + rest[1],
             Len(split_whitespace(Head(lines))) + 1 + rest[2]>>

get_perplexity_score(sentence, kenlm_model) ==
  LET sums == perplexity_sums(split(sentence, "\n"), kenlm_model)
  IN  Frac(-sums[1], sums[2])

\* perplexity_cutoff is given by its log10, a fraction: 10 ** x is increasing,
\* so score < perplexity_cutoff compares the exponents
check_perplexity(sentence, kenlm_model, perplexity_cutoff) ==
  IF TruthyObject(kenlm_model)
  THEN LET exponent == get_perplexity_score(sentence, kenlm_model[1])
       IN  IF exponent[2] = 0 THEN "ZeroDivisionError"
           ELSE Bool(Less(exponent, perplexity_cutoff))
  ELSE "True"

\* The call of Filtering.filtering as one function: the verdict, or the
\* exception a check raised
filtering(sentence, param, self, langs_id) ==
  LET r1 == IF param.cond_check_empty
            THEN check_empty(sentence, param.strip_characters) ELSE "True"
      r2 == IF param.cond_check_special_characters
            THEN check_special_characters(sentence, param.special_characters, param.special_characters_cutoff)
            ELSE "True"
      r3 == IF param.cond_check_stopwords
            THEN check_stopwords(sentence, param.strip_characters, self.stopwords, param.stopwords_min_cutoff, param.stopwords_max_cutoff)
            ELSE "True"
      r4 == IF param.cond_check_badwords
            THEN check_badwords(sentence, param.strip_characters, self.badwords, param.badwords_cutoff)
            ELSE "True"
      r5 == IF param.cond_check_lang_id
            THEN check_lang_id(sentence, param.strip_characters, self.lang_oscar_id, self.model_lang_id, param.lang_id_cutoff, langs_id)
            ELSE "True"
      r6 == IF param.cond_check_perplexity
            THEN check_perplexity(sentence, self.kenlm_model, param.perplexity_cutoff)
            ELSE "True"
  IN  IF r1 # "True" THEN r1
      ELSE IF r2 # "True" THEN r2
      ELSE IF r3 # "True" THEN r3
      ELSE IF r4 # "True" THEN r4
      ELSE IF r5 # "True" THEN r5
      ELSE r6

\* ------------------------------------------------ binding a language
\* parameters_filtering[lang_oscar_id], or the default entry
load_parameters(parameters_filtering, lang_oscar_id) ==
  IF lang_oscar_id \in DOMAIN parameters_filtering
  THEN parameters_filtering[lang_oscar_id]
  ELSE parameters_filtering["default"]

\* OscarModifyingSentences.__init__
OscarModifyingSentences_init(e) ==
  [lang_oscar_id |-> e.lang_oscar_id,
   param |-> load_parameters(e.parameters_filtering, e.lang_oscar_id)]

\* OscarModifyingSentences.__call__: the example's new text
OscarModifyingSentences_call(self, text) ==
  modifying_sentences(text, self.param.cond_remove_words_with_incorrect_substrings, self.param.incorrect_word_substrings, self.param.cond_remove_long_words, self.param.length_word_cutoff)

\* FuncOscarFiltering.__init__: <<self>>, or <<>> when a lookup raises
\* (the language has no row in langs_id: .iloc[0] of no rows)
FuncOscarFiltering_init(e) ==
  LET lang == e.lang_oscar_id
      nltk_lang_id == loc(e.langs_id, "oscar_id", lang, "nltk_id")
      badwords_lang_id == loc(e.langs_id, "oscar_id", lang, "badwords_id")
      fasttext_lang_id == loc(e.langs_id, "oscar_id", lang, "fasttext_id")
      kenlm_lang_id == loc(e.langs_id, "oscar_id", lang, "kenlm_id")
  IN  IF nltk_lang_id = <<>> THEN <<>>
      ELSE <<[lang_oscar_id |-> lang,
              stopwords |-> IF TruthyStr(nltk_lang_id[1])
                            THEN <<e.stopwords[nltk_lang_id[1]]>> ELSE <<>>,
              badwords |-> IF TruthyStr(badwords_lang_id[1])
                           THEN <<e.badwords[badwords_lang_id[1]]>> ELSE <<>>,
              model_lang_id |-> IF TruthyStr(fasttext_lang_id[1])
                                THEN <<e.fasttext>> ELSE <<>>,
              kenlm_model |-> IF TruthyStr(kenlm_lang_id[1])
                              THEN <<e.kenlm>> ELSE <<>>,
              param |-> load_parameters(e.parameters_filtering, lang)]>>

\* FuncOscarFiltering.__call__ as one function
FuncOscarFiltering_call(self, text, langs_id) ==
  filtering(strip(text, Whitespace), self.param, self, langs_id)

\* ------------------------------------------------------ environments
\* What a run is started with: the language, the tables the module imports
\* (langs_id, stopwords, badwords, parameters_filtering), the models behind
\* the two paths, num_proc and the dataset.
Row(o, n, b, f, k) == [oscar_id |-> o, nltk_id |-> n, badwords_id |-> b, fasttext_id |-> f, kenlm_id |-> k]

\* the six check toggles
AllToggles == [empty : BOOLEAN, special_characters : BOOLEAN, stopwords : BOOLEAN, badwords : BOOLEAN, lang_id : BOOLEAN, perplexity : BOOLEAN]
AllOn == [empty |-> TRUE, special_characters |-> TRUE, stopwords |-> TRUE, badwords |-> TRUE, lang_id |-> TRUE, perplexity |-> TRUE]
AllOff == [empty |-> FALSE, special_characters |-> FALSE, stopwords |-> FALSE, badwords |-> FALSE, lang_id |-> FALSE, perplexity |-> FALSE]

\* the cutoffs; perplexity is the log10 of perplexity_cutoff
BaseCutoffs == [special_characters |-> Frac(1, 2), stopwords_min |-> Frac(0, 1), stopwords_max |-> Frac(1, 1), badwords |-> Frac(1, 2), lang_id |-> Frac(1, 2), perplexity |-> Frac(7, 3)]
CutoffVariants ==
  { [BaseCutoffs EXCEPT !.special_characters = Frac(1, 3)],
    [BaseCutoffs EXCEPT !.stopwords_min = Frac(1, 2)],
    [BaseCutoffs EXCEPT !.stopwords_max = Frac(1, 2)],
    [BaseCutoffs EXCEPT !.stopwords_min = Frac(1, 3), !.stopwords_max = Frac(2, 3)],
    [BaseCutoffs EXCEPT !.perplexity = Frac(5, 2)],
    [BaseCutoffs EXCEPT !.badwords = Frac(1, 1), !.lang_id = Frac(9, 10), !.perplexity = Frac(2, 1)] }

\* the transformer's two passes
NoRewrite == [cond_substrings |-> FALSE, substrings |-> {}, cond_long |-> FALSE, cutoff |-> 0]
SubstringSets == { {}, {<<>>}, {<<"a">>}, {<<"!">>, <<"a", "A">>} }
Rewrites == [cond_substrings : BOOLEAN, substrings : SubstringSets, cond_long : BOOLEAN, cutoff : (-1)..MaxLen]

\* one entry of parameters_filtering
Param(t, c, r) ==
  [cond_remove_words_with_incorrect_substrings |-> r.cond_substrings,
   incorrect_word_substrings |-> r.substrings,
   cond_remove_long_words |-> r.cond_long,
   length_word_cutoff |-> r.cutoff,
   cond_check_empty |-> t.empty,
   strip_characters |-> {"!"},
   cond_check_special_characters |-> t.special_characters,
   special_characters |-> {"!"},
   special_characters_cutoff |-> c.special_characters,
   cond_check_stopwords |-> t.stopwords,
   stopwords_min_cutoff |-> c.stopwords_min,
   stopwords_max_cutoff |-> c.stopwords_max,
   cond_check_badwords |-> t.badwords,
   badwords_cutoff |-> c.badwords,
   cond_check_lang_id |-> t.lang_id,
   lang_id_cutoff |-> c.lang_id,
   cond_check_perplexity |-> t.perplexity,
   perplexity_cutoff |-> c.perplexity]

\* classifiers: one whose labels are all in langs_id, one that answers a
\* label (zz) langs_id has no row for
AllMapped == [with_a |-> <<"xx", Frac(9, 10)>>, other |-> <<"yy", Frac(9, 10)>>]
SomeUnmapped == [with_a |-> <<"xx", Frac(1, 2)>>, other |-> <<"zz", Frac(9, 10)>>]
\* the language model
LanguageModel == [per_token |-> 3, eos |-> 1]

\* langs_id: the row of language xx names all four resources, or none
LangsIdAll == <<Row("yy", "yy", "yy", "yy", "yy"), Row("xx", "xx", "xx", "xx", "xx")>>
LangsIdNone == <<Row("yy", "yy", "yy", "yy", "yy"), Row("xx", "", "", "", "")>>
LangsIdTables == {LangsIdAll, LangsIdNone}

\* stopwords and badwords: lists per language, one of them empty
Lexicon(words) == [id \in {"xx", "yy"} |-> IF id = "xx" THEN words ELSE {<<"a">>}]

Env(lang, table, sw, bw, ft, params, n, data) ==
  [lang_oscar_id |-> lang, langs_id |-> table, stopwords |-> Lexicon(sw), badwords |-> Lexicon(bw), fasttext |-> ft, kenlm |-> LanguageModel, parameters_filtering |-> params, num_proc |-> n, dataset |-> data]

Default(p) == [key \in {"default"} |-> p]
PerLanguage(p) == [key \in {"default", "xx"} |-> IF key = "xx" THEN p ELSE Param(AllOff, BaseCutoffs, NoRewrite)]

\* the environments of a run over `data` by n processes
Envs(n, data) ==
       { Env("xx", table, {<<"a">>}, {<<"a", "a">>}, AllMapped, Default(Param(t, BaseCutoffs, NoRewrite)), n, data) :
           t \in AllToggles, table \in LangsIdTables }
  \cup { Env("xx", LangsIdAll, {}, {}, AllMapped, Default(Param(t, BaseCutoffs, NoRewrite)), n, data) :
           t \in {AllOn, [AllOn EXCEPT !.stopwords = FALSE], [AllOn EXCEPT !.badwords = FALSE], [AllOff EXCEPT !.stopwords = TRUE, !.badwords = TRUE]} }
  \cup { Env("xx", LangsIdAll, {<<"a">>}, {<<"a", "a">>}, ft, Default(Param(AllOn, c, NoRewrite)), n, data) :
           c \in CutoffVariants, ft \in {AllMapped, SomeUnmapped} }
  \cup { Env("xx", LangsIdAll, {<<"a">>}, {<<"a", "a">>}, SomeUnmapped, PerLanguage(Param(t, BaseCutoffs, NoRewrite)), n, data) :
           t \in {AllOn, [AllOff EXCEPT !.lang_id = TRUE]} }
  \cup { Env("qq", LangsIdAll, {<<"a">>}, {<<"a", "a">>}, AllMapped, Default(Param(AllOn, BaseCutoffs, NoRewrite)), n, data) }

\* ------------------------------------------------------------- state
VARIABLES
  env,        \* the environment of the run (never written)
  ds,         \* the dataset: the text of each document
  outputs,    \* per document, the texts the transformer returned for it
  keep,       \* per document, the verdict keep_fn returned ("none" before)
  pc,         \* per process, its position
  cursor,     \* per process, the document it is at
  modifier,   \* per process, its OscarModifyingSentences (<<>> before)
  filterer,   \* per process, its FuncOscarFiltering (<<>> before)
  sentence,   \* per process, the sentence of the keep_fn call under way
  evaluated,  \* per process, the checks called in this call, in order
  returned,   \* per process, what each of them returned or raised
  ratios,     \* per process, <<check, numerator, denominator>> of each ratio
  queries,    \* per process, the scorers queried in this call
  verdict     \* per process, the value Filtering.filtering returned

vars == <<env, ds, outputs, keep, pc, cursor, modifier, filterer, sentence, evaluated, returned, ratios, queries, verdict>>

Procs == 1..env.num_proc
Docs == 1..Len(env.dataset)

\* The contiguous shard of process w among n, of a dataset of len documents
ShardFirst(w, n, len) ==
  LET index == w - 1
      mod == len % n
  IN  (len \div n) * index + (IF index < mod THEN index ELSE mod) + 1

ShardLast(w, n, len) == ShardFirst(w + 1, n, len) - 1

First(w) == ShardFirst(w, env.num_proc, Len(env.dataset))
Last(w) == ShardLast(w, env.num_proc, Len(env.dataset))

\* The document a call of process w is handed
example(w) == cursor[w]

\* The attributes of the bound objects after a call: __call__ assigns none
modifier_after_call(self) == self
\* a __call__ that drops the stopword lexicon once it has used it
filterer_forgets_stopwords(self) == [self EXCEPT !.stopwords = <<>>]
filterer_after_call(self) == self

\* The order of the checks in Filtering.filtering
CheckOrder == <<"empty", "special_characters", "stopwords", "badwords", "lang_id", "perplexity">>

Toggle(param, check) ==
  CASE check = "empty" -> param.cond_check_empty
    [] check = "special_characters" -> param.cond_check_special_characters
    [] check = "stopwords" -> param.cond_check_stopwords
    [] check = "badwords" -> param.cond_check_badwords
    [] check = "lang_id" -> param.cond_check_lang_id
    [] check = "perplexity" -> param.cond_check_perplexity

\* The first check from position k on whose toggle is set, or "return"
RECURSIVE CheckFrom(_, _)
CheckFrom(param, k) ==
  IF k > Len(CheckOrder) THEN "return"
  ELSE IF Toggle(param, CheckOrder[k]) THEN CheckOrder[k]
  ELSE CheckFrom(param, k + 1)

Position(check) == CHOOSE k \in 1..Len(CheckOrder) : CheckOrder[k] = check

InitRun ==
  /\ ds = env.dataset
  /\ outputs = [d \in Docs |-> <<>>]
  /\ keep = [d \in Docs |-> "none"]
  /\ pc = [w \in Procs |-> "start"]
  /\ cursor = [w \in Procs |-> First(w)]
  /\ modifier = [w \in Procs |-> <<>>]
  /\ filterer = [w \in Procs |-> <<>>]
  /\ sentence = [w \in Procs |-> <<>>]
  /\ evaluated = [w \in Procs |-> <<>>]
  /\ returned = [w \in Procs |-> <<>>]
  /\ ratios = [w \in Procs |-> <<>>]
  /\ queries = [w \in Procs |-> <<>>]
  /\ verdict = [w \in Procs |-> "none"]

\* ----------------------------------------------------------- actions
\* OscarFiltering.modifying_sentences: each process builds the transformer
StartMap(w) ==
  /\ pc[w] = "start"
  /\ modifier' = [modifier EXCEPT ![w] = <<OscarModifyingSentences_init(env)>>]
  /\ pc' = [pc EXCEPT ![w] = IF First(w) > Last(w) THEN "mapped" ELSE "map"]
  /\ UNCHANGED <<env, ds, outputs, keep, cursor, filterer, sentence, evaluated, returned, ratios, queries, verdict>>

\* transform_fn on the next document of the shard
Transform(w) ==
  /\ pc[w] = "map"
  /\ LET d == example(w)
         text == OscarModifyingSentences_call(modifier[w][1], ds[d])
     IN  /\ ds' = [ds EXCEPT ![d] = text]
         /\ outputs' = [outputs EXCEPT ![d] = Append(@, text)]
         /\ modifier' = [modifier EXCEPT ![w] = <<modifier_after_call(@[1])>>]
         /\ cursor' = [cursor EXCEPT ![w] = IF d = Last(w) THEN First(w) ELSE d + 1]
         /\ pc' = [pc EXCEPT ![w] = IF d = Last(w) THEN "mapped" ELSE "map"]
  /\ UNCHANGED <<env, keep, filterer, sentence, evaluated, returned, ratios, queries, verdict>>

\* OscarFiltering.filtering, once the map is over: each process builds the
\* filter; a lookup that raises ends the process
Bind(w) ==
  /\ pc[w] = "mapped"
  /\ \A v \in Procs : pc[v] \notin {"start", "map"}
  /\ LET self == FuncOscarFiltering_init(env)
     IN  /\ filterer' = [filterer EXCEPT ![w] = self]
         /\ pc' = [pc EXCEPT ![w] = IF self = <<>> THEN "raised"
                                    ELSE IF First(w) > Last(w) THEN "done" ELSE "idle"]
  /\ UNCHANGED <<env, ds, outputs, keep, cursor, modifier, sentence, evaluated, returned, ratios, queries, verdict>>

\* keep_fn is called on the next document of the shard: FuncOscarFiltering.__call__
\* strips the text and enters Filtering.filtering
KeepCall(w) ==
  /\ pc[w] = "idle"
  /\ LET first == CheckFrom(filterer[w][1].param, 1)
     IN  /\ sentence' = [sentence EXCEPT ![w] = strip(ds[example(w)], Whitespace)]
         /\ pc' = [pc EXCEPT ![w] = first]
         /\ verdict' = [verdict EXCEPT ![w] = IF first = "return" THEN "True" ELSE "none"]
  /\ evaluated' = [evaluated EXCEPT ![w] = <<>>]
  /\ returned' = [returned EXCEPT ![w] = <<>>]
  /\ ratios' = [ratios EXCEPT ![w] = <<>>]
  /\ queries' = [queries EXCEPT ![w] = <<>>]
  /\ UNCHANGED <<env, ds, outputs, keep, cursor, modifier, filterer>>

\* Checked without the `return False`: a failed check goes on to the next
Checked_without_return(w, check, result) ==
  LET next == CheckFrom(filterer[w][1].param, Position(check) + 1)
  IN  /\ evaluated' = [evaluated EXCEPT ![w] = Append(@, check)]
      /\ returned' = [returned EXCEPT ![w] = Append(@, result)]
      /\ pc' = [pc EXCEPT ![w] = IF result \in {"True", "False"} THEN next ELSE "raised"]
      /\ verdict' = [verdict EXCEPT ![w] = IF result = "False" THEN "False"
                                           ELSE IF result = "True" /\ next = "return" /\ @ = "none" THEN "True"
                                           ELSE @]
      /\ UNCHANGED <<env, ds, outputs, keep, cursor, modifier, filterer, sentence>>

\* One check of Filtering.filtering was called and returned (or raised) result
Checked(w, check, result) ==
  LET next == CheckFrom(filterer[w][1].param, Position(check) + 1)
  IN  /\ evaluated' = [evaluated EXCEPT ![w] = Append(@, check)]
      /\ returned' = [returned EXCEPT ![w] = Append(@, result)]
      /\ pc' = [pc EXCEPT ![w] = IF result = "True" THEN next
                                 ELSE IF result = "False" THEN "return" ELSE "raised"]
      /\ verdict' = [verdict EXCEPT ![w] = IF result = "False" THEN "False"
                                           ELSE IF result = "True" /\ next = "return" THEN "True"
                                           ELSE @]
      /\ UNCHANGED <<env, ds, outputs, keep, cursor, modifier, filterer, sentence>>

CheckEmpty(w) ==
  /\ pc[w] = "empty"
  /\ Checked(w, "empty", check_empty(sentence[w], filterer[w][1].param.strip_characters))
  /\ UNCHANGED <<ratios, queries>>

CheckSpecialCharacters(w) ==
  /\ pc[w] = "special_characters"
  /\ LET param == filterer[w][1].param
         ratio == special_characters_ratio(sentence[w], param.special_characters)
     IN  /\ Checked(w, "special_characters", check_special_characters(sentence[w], param.special_characters, param.special_characters_cutoff))
         /\ ratios' = [ratios EXCEPT ![w] = Append(@, <<"special_characters", ratio[1], ratio[2]>>)]
  /\ UNCHANGED queries

CheckStopwords(w) ==
  /\ pc[w] = "stopwords"
  /\ LET self == filterer[w][1]
         param == self.param
     IN  /\ Checked(w, "stopwords", check_stopwords(sentence[w], param.strip_characters, self.stopwords, param.stopwords_min_cutoff, param.stopwords_max_cutoff))
         /\ ratios' = [ratios EXCEPT ![w] =
              IF TruthySet(self.stopwords)
              THEN LET ratio == words_ratio(sentence[w], param.strip_characters, self.stopwords[1])
                   IN  Append(@, <<"stopwords", ratio[1], ratio[2]>>)
              ELSE @]
  /\ UNCHANGED queries

CheckBadwords(w) ==
  /\ pc[w] = "badwords"
  /\ LET self == filterer[w][1]
         param == self.param
     IN  /\ Checked(w, "badwords", check_badwords(sentence[w], param.strip_characters, self.badwords, param.badwords_cutoff))
         /\ ratios' = [ratios EXCEPT ![w] =
              IF TruthySet(self.badwords)
              THEN LET ratio == words_ratio(sentence[w], param.strip_characters, self.badwords[1])
                   IN  Append(@, <<"badwords", ratio[1], ratio[2]>>)
              ELSE @]
  /\ UNCHANGED queries

CheckLangId(w) ==
  /\ pc[w] = "lang_id"
  /\ LET self == filterer[w][1]
         param == self.param
     IN  /\ Checked(w, "lang_id", check_lang_id(sentence[w], param.strip_characters, self.lang_oscar_id, self.model_lang_id, param.lang_id_cutoff, env.langs_id))
         /\ queries' = [queries EXCEPT ![w] =
              IF TruthyObject(self.model_lang_id) THEN Append(@, "fasttext") ELSE @]
  /\ UNCHANGED ratios

CheckPerplexity(w) ==
  /\ pc[w] = "perplexity"
  /\ LET self == filterer[w][1]
     IN  /\ Checked(w, "perplexity", check_perplexity(sentence[w], self.kenlm_model, self.param.perplexity_cutoff))
         /\ queries' = [queries EXCEPT ![w] =
              IF TruthyObject(self.kenlm_model) THEN Append(@, "kenlm") ELSE @]
  /\ UNCHANGED ratios

\* Filtering.filtering returns; keep_fn hands the verdict to the engine and
\* the process goes on to its next document
Return(w) ==
  /\ pc[w] = "return"
  /\ LET d == example(w)
     IN  /\ keep' = [keep EXCEPT ![d] = verdict[w]]
         /\ cursor' = [cursor EXCEPT ![w] = IF d = Last(w) THEN d ELSE d + 1]
         /\ pc' = [pc EXCEPT ![w] = IF d = Last(w) THEN "done" ELSE "idle"]
         /\ filterer' = [filterer EXCEPT ![w] = <<filterer_after_call(@[1])>>]
  /\ UNCHANGED <<env, ds, outputs, modifier, sentence, evaluated, returned, ratios, queries, verdict>>

\* transform_fn applied once more to a document it has already rewritten
Reapply(w) ==
  /\ pc[w] = "mapped"
  /\ \E d \in First(w)..Last(w) :
       /\ Len(outputs[d]) < MaxCalls
       /\ LET text == OscarModifyingSentences_call(modifier[w][1], ds[d])
          IN  /\ ds' = [ds EXCEPT ![d] = text]
              /\ outputs' = [outputs EXCEPT ![d] = Append(@, text)]
  /\ UNCHANGED <<env, keep, pc, cursor, modifier, filterer, sentence, evaluated, returned, ratios, queries, verdict>>

\* --------------------------------------------------- specifications
DoStartMap == \E w \in Procs : StartMap(w)
DoTransform == \E w \in Procs : Transform(w)
DoReapply == \E w \in Procs : Reapply(w)
DoBind == \E w \in Procs : Bind(w)
DoKeepCall == \E w \in Procs : KeepCall(w)
DoCheckEmpty == \E w \in Procs : CheckEmpty(w)
DoCheckSpecialCharacters == \E w \in Procs : CheckSpecialCharacters(w)
DoCheckStopwords == \E w \in Procs : CheckStopwords(w)
DoCheckBadwords == \E w \in Procs : CheckBadwords(w)
DoCheckLangId == \E w \in Procs : CheckLangId(w)
DoCheckPerplexity == \E w \in Procs : CheckPerplexity(w)
DoReturn == \E w \in Procs : Return(w)

\* The program: map, then filter, by num_proc processes
Next ==
  \/ DoStartMap
  \/ DoTransform
  \/ DoBind
  \/ DoKeepCall
  \/ DoCheckEmpty
  \/ DoCheckSpecialCharacters
  \/ DoCheckStopwords
  \/ DoCheckBadwords
  \/ DoCheckLangId
  \/ DoCheckPerplexity
  \/ DoReturn

\* keep_fn over every text, one process
InitFilter ==
  /\ \E t \in Texts : env \in Envs(1, <<t>>)
  /\ InitRun

SpecFilter == InitFilter /\ [][Next]_vars

\* the transformer over every text and every configuration of its passes
NextTransform ==
  \/ DoStartMap
  \/ DoTransform
  \/ DoReapply

InitTransform ==
  /\ \E r \in Rewrites, t \in Texts :
       env = Env("xx", LangsIdAll, {<<"a">>}, {<<"a", "a">>}, AllMapped, Default(Param(AllOn, BaseCutoffs, r)), 1, <<t>>)
  /\ InitRun

SpecTransform == InitTransform /\ [][NextTransform]_vars

\* the whole run by NumProc processes over a few datasets
NumProc == 2
Datasets ==
  { << <<"a", " ", "!">>, <<"a", "a", " ", "A">>, <<"a", " ", "!">>, <<>> >>,
    << <<"!", "!">>, <<"a", "\n", "a">>, <<"a", "a", " ", "a">>, <<" ", "a", " ">>, <<"!", "!">> >> }
Rewriting == [cond_substrings |-> TRUE, substrings |-> {<<"a", "a">>}, cond_long |-> TRUE, cutoff |-> 3]

InitWorkers ==
  /\ \E data \in Datasets :
       env \in Envs(NumProc, data)
                 \cup { Env("xx", LangsIdAll, {<<"a">>}, {<<"a", "a">>}, AllMapped, Default(Param(t, BaseCutoffs, Rewriting)), NumProc, data) :
                          t \in {AllOn, [AllOn EXCEPT !.stopwords = FALSE]} }
  /\ InitRun

Spec == InitWorkers /\ [][Next]_vars

\* ------------------------------------------------------------ claims
Range(seq) == {seq[i] : i \in 1..Len(seq)}
CheckPositions == {"empty", "special_characters", "stopwords", "badwords", "lang_id", "perplexity"}
BoundFilter(w) == filterer[w] # <<>>
FilterParam(w) == filterer[w][1].param
\* the enabled checks, in the order empty, special-character, stopword, badword, language-id, perplexity
EnabledChecks(param) ==
     (IF param.cond_check_empty THEN <<"empty">> ELSE <<>>)
  \o (IF param.cond_check_special_characters THEN <<"special_characters">> ELSE <<>>)
  \o (IF param.cond_check_stopwords THEN <<"stopwords">> ELSE <<>>)
  \o (IF param.cond_check_badwords THEN <<"badwords">> ELSE <<>>)
  \o (IF param.cond_check_lang_id THEN <<"lang_id">> ELSE <<>>)
  \o (IF param.cond_check_perplexity THEN <<"perplexity">> ELSE <<>>)
\* what a check answers for the sentence of process w, called on its own
Answer(w, check) ==
  LET self == filterer[w][1]
      param == self.param
  IN  CASE check = "empty" -> check_empty(sentence[w], param.strip_characters)
        [] check = "special_characters" -> check_special_characters(sentence[w], param.special_characters, param.special_characters_cutoff)
        [] check = "stopwords" -> check_stopwords(sentence[w], param.strip_characters, self.stopwords, param.stopwords_min_cutoff, param.stopwords_max_cutoff)
        [] check = "badwords" -> check_badwords(sentence[w], param.strip_characters, self.badwords, param.badwords_cutoff)
        [] check = "lang_id" -> check_lang_id(sentence[w], param.strip_characters, self.lang_oscar_id, self.model_lang_id, param.lang_id_cutoff, env.langs_id)
        [] check = "perplexity" -> check_perplexity(sentence[w], self.kenlm_model, param.perplexity_cutoff)

\* C1: Filtering.filtering calls only the enabled checks, in the order empty,
\* special-character, stopword, badword, language-id, perplexity; every check
\* called before the last one returned True; once a check returns False the
\* call returns False and nothing more is called or queried; and it returns
\* True exactly when every enabled check answers True.
C1_ShortCircuit ==
  \A w \in Procs : BoundFilter(w) =>
    LET enabled == EnabledChecks(FilterParam(w))
        n == Len(evaluated[w])
    IN  /\ n <= Len(enabled)
        /\ evaluated[w] = SubSeq(enabled, 1, n)
        /\ Len(returned[w]) = n
        /\ \A i \in 1..n : returned[w][i] = Answer(w, evaluated[w][i])
        /\ \A i \in 1..(n - 1) : returned[w][i] = "True"
        /\ pc[w] \in CheckPositions =>
             /\ verdict[w] = "none"
             /\ n < Len(enabled) /\ pc[w] = enabled[n + 1]
             /\ \A i \in 1..n : returned[w][i] = "True"
        /\ (n > 0 /\ returned[w][n] = "False") =>
             /\ pc[w] \in {"return", "idle", "done"}
             /\ verdict[w] = "False"
        /\ pc[w] = "return" =>
             /\ verdict[w] \in {"True", "False"}
             /\ verdict[w] = "False" <=> (n > 0 /\ returned[w][n] = "False")
             /\ verdict[w] = "True" <=> \A c \in Range(enabled) : Answer(w, c) = "True"
        /\ \A q \in Range(queries[w]) :
             /\ q = "fasttext" => \E i \in 1..n : evaluated[w][i] = "lang_id"
             /\ q = "kenlm" => \E i \in 1..n : evaluated[w][i] = "perplexity"

\* a call that stopped at the stopword check with the classifier and the
\* language model enabled, bound and never queried
C1_Witness ==
  \E w \in Procs :
    /\ BoundFilter(w) /\ pc[w] = "return" /\ verdict[w] = "False"
    /\ evaluated[w] = <<"empty", "special_characters", "stopwords">>
    /\ FilterParam(w).cond_check_lang_id /\ FilterParam(w).cond_check_perplexity
    /\ filterer[w][1].model_lang_id # <<>> /\ filterer[w][1].kenlm_model # <<>>
    /\ queries[w] = <<>>

\* C2: every ratio a check computes has a non-zero denominator, for every
\* combination of the toggles.
C2_NonZeroDenominators ==
  \A w \in Procs : \A i \in 1..Len(ratios[w]) : ratios[w][i][3] # 0

\* a document whose normalized text is empty, or that has no token
EmptyDocument(text, strip_characters) ==
  \/ \A i \in 1..Len(text) : text[i] \in {" ", "\n"}
  \/ Len(get_words_from_sentence(text, strip_characters)) = 0

\* C3: with the empty check enabled, keep_fn on a document whose normalized
\* text is empty (or that has no token) calls the empty check only and
\* returns False, whatever the other toggles and resources.
C3_EmptyDropped ==
  \A w \in Procs :
    (/\ BoundFilter(w) /\ FilterParam(w).cond_check_empty
     /\ pc[w] \in CheckPositions \cup {"return", "raised"}
     /\ EmptyDocument(ds[cursor[w]], FilterParam(w).strip_characters))
    => \/ pc[w] = "empty" /\ evaluated[w] = <<>> /\ verdict[w] = "none"
       \/ /\ pc[w] = "return" /\ verdict[w] = "False"
          /\ evaluated[w] = <<"empty">> /\ ratios[w] = <<>> /\ queries[w] = <<>>

\* an all-whitespace document dropped with every other check enabled
C3_Witness ==
  \E w \in Procs :
    /\ BoundFilter(w) /\ pc[w] = "return" /\ verdict[w] = "False"
    /\ FilterParam(w).cond_check_empty /\ FilterParam(w).cond_check_special_characters
    /\ FilterParam(w).cond_check_stopwords /\ FilterParam(w).cond_check_lang_id
    /\ Len(ds[cursor[w]]) >= 2
    /\ \A i \in 1..Len(ds[cursor[w]]) : ds[cursor[w]][i] \in {" ", "\n"}

\* C4: the transformer applied again, with the same configuration, to a text
\* it has rewritten returns that text.
C4_Idempotent ==
  \A d \in Docs : \A i \in 1..Len(outputs[d]) : outputs[d][i] = outputs[d][1]

\* both passes on, the first call dropped a word and kept another, and the
\* transformer has been applied again
C4_Witness ==
  \E d \in Docs :
    /\ Len(outputs[d]) >= 2
    /\ outputs[d][1] # env.dataset[d] /\ outputs[d][1] # <<>>
    /\ \A w \in Procs : modifier[w] # <<>>
         /\ modifier[w][1].param.cond_remove_words_with_incorrect_substrings
         /\ modifier[w][1].param.cond_remove_long_words

\* C5: once the filter is constructed, no call of the language-id check
\* fails because the predicted label has no row in langs_id.
C5_UnmappedLabelFatalAtSetup ==
  \A w \in Procs : BoundFilter(w) =>
    \A i \in 1..Len(returned[w]) :
      evaluated[w][i] = "lang_id" => returned[w][i] # "IndexError"

\* the row of the language in langs_id
LanguageRow == env.langs_id[CHOOSE i \in 1..Len(env.langs_id) : env.langs_id[i].oscar_id = env.lang_oscar_id]

\* C6: a check whose resource the language does not have (no stopword or
\* badword lexicon, no classifier, no language model) returns True when it
\* is called, computes no ratio and queries no scorer.
C6_MissingResourcePasses ==
  \A w \in Procs : BoundFilter(w) =>
    /\ \A i \in 1..Len(returned[w]) :
         /\ (evaluated[w][i] = "stopwords" /\ LanguageRow.nltk_id = "") => returned[w][i] = "True"
         /\ (evaluated[w][i] = "badwords" /\ LanguageRow.badwords_id = "") => returned[w][i] = "True"
         /\ (evaluated[w][i] = "lang_id" /\ LanguageRow.fasttext_id = "") => returned[w][i] = "True"
         /\ (evaluated[w][i] = "perplexity" /\ LanguageRow.kenlm_id = "") => returned[w][i] = "True"
    /\ LanguageRow.nltk_id = "" => \A r \in Range(ratios[w]) : r[1] # "stopwords"
    /\ LanguageRow.badwords_id = "" => \A r \in Range(ratios[w]) : r[1] # "badwords"
    /\ LanguageRow.fasttext_id = "" => "fasttext" \notin Range(queries[w])
    /\ LanguageRow.kenlm_id = "" => "kenlm" \notin Range(queries[w])

\* a language with no resource at all, all six checks enabled and called
C6_Witness ==
  \E w \in Procs :
    /\ BoundFilter(w) /\ pc[w] = "return" /\ verdict[w] = "True"
    /\ LanguageRow.nltk_id = "" /\ LanguageRow.badwords_id = ""
    /\ LanguageRow.fasttext_id = "" /\ LanguageRow.kenlm_id = ""
    /\ Len(evaluated[w]) = 6

\* C7: with a lexicon that is present but empty, the stopword and the badword
\* check are not skipped: the verdict is the comparison of 0 / token count
\* with the cutoffs.
C7_EmptyLexiconCompared ==
  \A w \in Procs : BoundFilter(w) =>
    LET self == filterer[w][1]
        zero == Frac(0, Len(get_words_from_sentence(sentence[w], self.param.strip_characters)))
    IN  \A i \in 1..Len(returned[w]) :
          /\ (evaluated[w][i] = "stopwords" /\ self.stopwords = <<{}>>) =>
               returned[w][i] = Bool(Less(self.param.stopwords_min_cutoff, zero) /\ Less(zero, self.param.stopwords_max_cutoff))
          /\ (evaluated[w][i] = "badwords" /\ self.badwords = <<{}>>) =>
               returned[w][i] = Bool(Less(zero, self.param.badwords_cutoff))

\* C8: with a stopword lexicon bound (any set, the empty one included), the
\* ratio is (tokens in the lexicon) / (all tokens, empty ones included) and
\* the check returns True iff min_cutoff < ratio < max_cutoff, both strict.
C8_StopwordBounds ==
  \A w \in Procs : BoundFilter(w) =>
    LET self == filterer[w][1]
        words == get_words_from_sentence(sentence[w], self.param.strip_characters)
        n == Len(words)
        lo == self.param.stopwords_min_cutoff
        hi == self.param.stopwords_max_cutoff
    IN  \A i \in 1..Len(returned[w]) :
          (evaluated[w][i] = "stopwords" /\ self.stopwords # <<>>) =>
            LET k == Cardinality({j \in 1..n : words[j] \in self.stopwords[1]})
            IN  /\ n > 0
                /\ <<"stopwords", k, n>> \in Range(ratios[w])
                /\ returned[w][i] \in {"True", "False"}
                /\ returned[w][i] = "True" <=> (lo[1] * n < k * lo[2] /\ k * hi[2] < hi[1] * n)

\* C9: for a normalized text of length L >= 1 with k special characters the
\* ratio is k / L and the check returns True iff k / L < cutoff, strictly.
C9_SpecialCharacterRatio ==
  \A w \in Procs : BoundFilter(w) =>
    LET param == FilterParam(w)
        sent == lower_strip_sentence(sentence[w])
        L == Len(sent)
        k == Cardinality({j \in 1..L : sent[j] \in param.special_characters})
        cutoff == param.special_characters_cutoff
    IN  \A i \in 1..Len(returned[w]) :
          (evaluated[w][i] = "special_characters" /\ L >= 1) =>
            /\ <<"special_characters", k, L>> \in Range(ratios[w])
            /\ returned[w][i] = Bool(k * cutoff[2] < cutoff[1] * L)

\* a ratio exactly equal to the cutoff, with a special character: False
C9_Witness ==
  \E w \in Procs :
    /\ BoundFilter(w) /\ "special_characters" \in Range(evaluated[w])
    /\ returned[w][Len(returned[w])] = "False"
    /\ evaluated[w][Len(evaluated[w])] = "special_characters"
    /\ \E r \in Range(ratios[w]) :
         /\ r[1] = "special_characters" /\ r[2] > 0 /\ r[3] >= 3
         /\ r[2] * FilterParam(w).special_characters_cutoff[2] = FilterParam(w).special_characters_cutoff[1] * r[3]

\* C10: under any interleaving of the processes' calls, the bound objects
\* stay as constructed, a document's text is the transformer's result for
\* its original text, its verdict is the one keep_fn gives for its text on
\* its own, and equal texts get equal verdicts.
C10_CallsIndependent ==
  /\ \A w \in Procs :
       /\ modifier[w] # <<>> => modifier[w][1] = OscarModifyingSentences_init(env)
       /\ filterer[w] # <<>> => filterer[w] = FuncOscarFiltering_init(env)
  /\ \A d \in Docs :
       /\ outputs[d] = <<>> => ds[d] = env.dataset[d]
       /\ outputs[d] # <<>> =>
            /\ Len(outputs[d]) = 1
            /\ ds[d] = outputs[d][1]
            /\ ds[d] = OscarModifyingSentences_call(OscarModifyingSentences_init(env), env.dataset[d])
       /\ keep[d] # "none" =>
            keep[d] = FuncOscarFiltering_call(FuncOscarFiltering_init(env)[1], ds[d], env.langs_id)
  /\ \A d1, d2 \in Docs :
       (ds[d1] = ds[d2] /\ keep[d1] # "none" /\ keep[d2] # "none") => keep[d1] = keep[d2]

\* two processes in the middle of a call, after each returned a verdict for
\* one of two documents with the same text, one text having been rewritten
C10_Witness ==
  /\ env.num_proc = 2
  /\ pc[1] \in CheckPositions /\ pc[2] \in CheckPositions
  /\ \E d1 \in First(1)..Last(1), d2 \in First(2)..Last(2) :
       /\ env.dataset[d1] = env.dataset[d2]
       /\ keep[d1] # "none" /\ keep[d2] # "none"
  /\ \E d \in Docs : ds[d] # env.dataset[d]
====
